---- MODULE Spec2Model ----
(***************************************************************************)
(* Model of ml_defarr (src/py/ml_defarr.py): the filling of a deflection   *)
(* field defarr[nx][ny][2] over the image-plane rectangle xr x yr by one   *)
(* of three schemes.  Floating-point numbers are modelled as exact         *)
(* rationals [n |-> numerator, d |-> denominator] in lowest terms.         *)
(***************************************************************************)
EXTENDS Integers, Sequences, FiniteSets, TLC

VARIABLES
    pc,        \* position in ml_defarr
    scheme,    \* the scheme argument: <<>> is None, <<s>> is the integer s
    bins,      \* the bins argument:   <<>> is None, <<b>> is the integer b
    xr, yr,    \* image-plane bounds, each a pair of rationals
    nx, ny,    \* grid resolution
    cells, stars,  \* the lens population handed to ml_defang
    defarr,    \* the caller's field: [node -> <<channel 0, channel 1>>]
    defarr0,   \* the caller's field as it was on entry
    calls,     \* the coordinates passed to ml_defang so far, in call order
    written,   \* the field indices assigned so far
    reported,  \* the diagnostic the call has printed, "" if none
    iximg, iyimg,            \* loop indices of schemes 1 and 3
    icx, icy,                \* block loop indices of scheme 2
    defur, deful, deflr, defll,  \* corner buffers of scheme 2
    coarse,    \* scheme 3: the coarse field
    xc, yc,    \* scheme 3: coordinates attached to the coarse samples
    ximg, yimg,  \* scheme 3: fine coordinate sequences
    fvals,     \* scheme 3: the test surface func(x, y)
    newfunc, defxint, defyint,  \* scheme 3: the fitted interpolants
    nproc,     \* dispatcher: the number of workers
    strip,     \* dispatcher: the partial field each worker computed
    ready,     \* dispatcher: the workers that have sent their result
    recvd,     \* dispatcher: the workers whose result has been received
    full       \* dispatcher: the reassembled field

vars == <<pc, scheme, bins, xr, yr, nx, ny, cells, stars, defarr, defarr0,
          calls, written, reported, iximg, iyimg, icx, icy,
          defur, deful, deflr, defll, coarse, xc, yc, ximg, yimg, fvals,
          newfunc, defxint, defyint, nproc, strip, ready, recvd, full>>

-----------------------------------------------------------------------------
(* Bounds of the model *)

MaxN == 5       \* largest nx, ny drawn

MaxBins == 2    \* largest explicit bins drawn

-----------------------------------------------------------------------------
(* Exact arithmetic standing for the float arithmetic of the code *)

Abs(a) == IF a < 0 THEN -a ELSE a

RECURSIVE GCD(_, _)
GCD(a, b) == IF b = 0 THEN a ELSE GCD(b, a % b)

Rat(n, d) ==
    LET g == GCD(Abs(n), Abs(d))
        s == IF d < 0 THEN -1 ELSE 1
    IN  [n |-> (s * n) \div g, d |-> (s * d) \div g]

Float(i) == Rat(i, 1)

Add(a, b) == Rat(a.n * b.d + b.n * a.d, a.d * b.d)

Sub(a, b) == Rat(a.n * b.d - b.n * a.d, a.d * b.d)

Mul(a, b) == Rat(a.n * b.n, a.d * b.d)

Div(a, b) == Rat(a.n * b.d, a.d * b.n)

Zero == Float(0)

One == Float(1)

None == <<>>

Some(v) == <<v>>

-----------------------------------------------------------------------------
(* The pointwise evaluator: a deterministic function of the coordinate and *)
(* the population, returning the 2-vector of deflection components.        *)

ml_defang(x, y, c, s) ==
    << Add(Add(Mul(Float(s), x), Mul(x, y)), Float(c)),
       Sub(Mul(y, y), Mul(Float(s), x)) >>

-----------------------------------------------------------------------------
(* Inputs *)

Ranges == { <<Float(0), Float(1)>>, <<Float(-1), Float(2)>> }

Lenses == { [cells |-> 0, stars |-> 1], [cells |-> 1, stars |-> 2] }

Schemes == { None, Some(0), Some(1), Some(2), Some(3), Some(4) }

BinsArgs == { None } \cup { Some(b) : b \in 1..MaxBins }

Nodes(w, h) == (0..(w - 1)) \X (0..(h - 1))

\* contents of the caller's array on entry: zeros, or values left by earlier use
Fields(w, h) ==
    { [p \in Nodes(w, h) |-> <<Zero, Zero>>],
      [p \in Nodes(w, h) |-> <<Float(100 + p[1]), Float(200 + p[2])>>] }

-----------------------------------------------------------------------------
(* State on entry to ml_defarr(defarr, xr, yr, nx, ny, cells, stars,       *)
(* scheme, bins)                                                           *)

NoInterp == [x |-> <<>>, y |-> <<>>, z |-> <<>>, kind |-> "none"]

s1vars == <<iximg, iyimg>>

s2vars == <<icx, icy, defur, deful, deflr, defll>>

s3vars == <<coarse, xc, yc, ximg, yimg, fvals, newfunc, defxint, defyint>>

dvars == <<nproc, strip, ready, recvd, full>>

args == <<xr, yr, nx, ny, cells, stars, defarr0>>

Init ==
    /\ pc = "entry"
    /\ scheme \in Schemes
    /\ bins \in BinsArgs
    /\ xr \in Ranges
    /\ yr \in Ranges
    /\ nx \in 1..MaxN
    /\ ny \in 1..MaxN
    /\ \E l \in Lenses : cells = l.cells /\ stars = l.stars
    /\ defarr \in Fields(nx, ny)
    /\ defarr0 = defarr
    /\ calls = <<>>
    /\ written = {}
    /\ reported = ""
    /\ iximg = 0 /\ iyimg = 0
    /\ icx = 0 /\ icy = 0
    /\ defur = <<Zero, Zero>> /\ deful = <<Zero, Zero>>
    /\ deflr = <<Zero, Zero>> /\ defll = <<Zero, Zero>>
    /\ coarse = <<>>
    /\ xc = <<>> /\ yc = <<>>
    /\ ximg = <<>> /\ yimg = <<>>
    /\ fvals = <<>>
    /\ newfunc = NoInterp /\ defxint = NoInterp /\ defyint = NoInterp
    /\ nproc = 0 /\ strip = <<>> /\ ready = {} /\ recvd = {} /\ full = <<>>

-----------------------------------------------------------------------------
(* Defaults and the choice of the scheme *)

BranchFallThrough(s) ==
    CASE s = Some(2) -> "scheme2"
      [] s = Some(3) -> "scheme3"
      [] OTHER -> "scheme1"

\* the if / elif / else chain on the scheme
Branch(s) ==
    CASE s = Some(1) -> "scheme1"
      [] s = Some(2) -> "scheme2"
      [] s = Some(3) -> "scheme3"
      [] OTHER -> "else"

Enter ==
    /\ pc = "entry"
    /\ scheme' = IF scheme = None THEN Some(1) ELSE scheme
    /\ pc' = Branch(scheme')
    /\ UNCHANGED <<bins, args, defarr, calls, written, reported,
                   s1vars, s2vars, s3vars, dvars>>

\* the else branch: report and return
Unsupported ==
    /\ pc = "else"
    /\ reported' = "UnsupportedScheme"
    /\ pc' = "done"
    /\ UNCHANGED <<scheme, bins, args, defarr, calls, written,
                   s1vars, s2vars, s3vars, dvars>>

-----------------------------------------------------------------------------
(* Scheme 1: loop directly through the image plane *)

XimgClosed(r, i, n) ==
    Add(r[1], Div(Mul(Sub(r[2], r[1]), Float(i)),
                  Float(IF n > 1 THEN n - 1 ELSE 1)))

\* coordinate of sample i of n over the range r
Ximg(r, i, n) ==
    Add(r[1], Div(Mul(Sub(r[2], r[1]), Float(i)), Float(n)))

\* the value scheme 1 computes for node (i, j) of a w-by-h grid
DirectNode(rx, ry, w, h, i, j, c, s) ==
    ml_defang(Ximg(rx, i, w), Ximg(ry, j, h), c, s)

S1TargetSwapped(i, j) == <<j, i>>

\* the node the loop body stores into
S1Target(i, j) == <<i, j>>

\* one pass of the inner loop body
Scheme1Step ==
    /\ pc = "scheme1"
    /\ iximg < nx
    /\ defarr' = [defarr EXCEPT ![S1Target(iximg, iyimg)] =
                      DirectNode(xr, yr, nx, ny, iximg, iyimg, cells, stars)]
    /\ written' = written \cup {S1Target(iximg, iyimg)}
    /\ calls' = Append(calls, <<Ximg(xr, iximg, nx), Ximg(yr, iyimg, ny)>>)
    /\ IF iyimg + 1 < ny
          THEN iyimg' = iyimg + 1 /\ iximg' = iximg
          ELSE iyimg' = 0 /\ iximg' = iximg + 1
    /\ UNCHANGED <<pc, scheme, bins, args, reported, s2vars, s3vars, dvars>>

Scheme1Return ==
    /\ pc = "scheme1"
    /\ iximg >= nx
    /\ pc' = "done"
    /\ UNCHANGED <<scheme, bins, args, defarr, calls, written, reported,
                   s1vars, s2vars, s3vars, dvars>>

-----------------------------------------------------------------------------
(* Scheme 2: evaluate block corners, interpolate bi-linearly inside *)

DefaultBins == 64

binsv == bins[1]

bp1 == binsv + 1

Xind(k) == k % bp1

Yind(k) == k \div bp1

XfracOverBp1(k) == Div(Float(Xind(k)), Float(bp1))

Xfrac(k) == Div(Float(Xind(k)), Float(binsv))

Yfrac(k) == Div(Float(Yind(k)), Float(binsv))

ncxNoMinusOne == nx \div binsv

ncx == (nx - 1) \div binsv

ncy == (ny - 1) \div binsv

ddx == Div(Sub(xr[2], xr[1]), Float(nx))

ddy == Div(Sub(yr[2], yr[1]), Float(ny))

\* the four corners of block (icx, icy): indices, then coordinates
iximgul == icx * binsv

iximgll == iximgul

iximgur == iximgul + binsv

iximglr == iximgll + binsv

iyimgll == icy * binsv

iyimglr == icy * binsv

iyimgul == iyimgll + binsv

iyimgur == iyimglr + binsv

Xcoord(i) == Add(xr[1], Mul(ddx, Float(i)))

Ycoord(j) == Add(yr[1], Mul(ddy, Float(j)))

EvalULByRow == icy = 0

EvalLRAlways == TRUE

\* which corners the block evaluates rather than reads back
EvalUL == icx = 0

EvalLR == icy = 0

EvalLL == (icx = 0) /\ (icy = 0)

Defang(i, j) == ml_defang(Xcoord(i), Ycoord(j), cells, stars)

CornerCalls ==
    <<  <<Xcoord(iximgur), Ycoord(iyimgur)>>  >>
    \o (IF EvalUL THEN << <<Xcoord(iximgul), Ycoord(iyimgul)>> >> ELSE <<>>)
    \o (IF EvalLR THEN << <<Xcoord(iximglr), Ycoord(iyimglr)>> >> ELSE <<>>)
    \o (IF EvalLL THEN << <<Xcoord(iximgll), Ycoord(iyimgll)>> >> ELSE <<>>)

\* the interpolation formula for one channel
Bilinear(ll, lr, ul, ur, xf, yf) ==
    Add(Add(Add(Mul(Mul(ll, Sub(One, xf)), Sub(One, yf)),
                Mul(Mul(lr, xf), Sub(One, yf))),
            Mul(Mul(ul, Sub(One, xf)), yf)),
        Mul(Mul(ur, xf), yf))

BlockTarget(k) == <<Xind(k) + iximgll, Yind(k) + iyimgll>>

BlockValue(k) ==
    << Bilinear(defll[1], deflr[1], deful[1], defur[1], Xfrac(k), Yfrac(k)),
       Bilinear(defll[2], deflr[2], deful[2], defur[2], Xfrac(k), Yfrac(k)) >>

Scheme2Begin ==
    /\ pc = "scheme2"
    /\ bins' = IF bins = None THEN Some(DefaultBins) ELSE bins
    /\ icx' = 0 /\ icy' = 0
    /\ pc' = "s2loop"
    /\ UNCHANGED <<scheme, args, defarr, calls, written, reported,
                   defur, deful, deflr, defll, s1vars, s3vars, dvars>>

\* the corner values of block (icx, icy)
Scheme2Corners ==
    /\ pc = "s2loop"
    /\ icx < ncx /\ icy < ncy
    /\ defur' = Defang(iximgur, iyimgur)
    /\ deful' = IF EvalUL THEN Defang(iximgul, iyimgul)
                          ELSE defarr[<<iximgul, iyimgul>>]
    /\ deflr' = IF EvalLR THEN Defang(iximglr, iyimglr)
                          ELSE defarr[<<iximglr, iyimglr>>]
    /\ defll' = IF EvalLL THEN Defang(iximgll, iyimgll)
                          ELSE defarr[<<iximgll, iyimgll>>]
    /\ calls' = calls \o CornerCalls
    /\ pc' = "s2fill"
    /\ UNCHANGED <<scheme, bins, args, defarr, written, reported, icx, icy,
                   s1vars, s3vars, dvars>>

\* the interpolated block, then the step of the two loops
Scheme2Fill ==
    /\ pc = "s2fill"
    /\ LET K == 0..(bp1 * bp1 - 1)
       IN  /\ defarr' = [p \in DOMAIN defarr |->
                           IF \E k \in K : BlockTarget(k) = p
                              THEN BlockValue(CHOOSE k \in K : BlockTarget(k) = p)
                              ELSE defarr[p]]
           /\ written' = written \cup { BlockTarget(k) : k \in K }
    /\ IF icy + 1 < ncy
          THEN icy' = icy + 1 /\ icx' = icx
          ELSE icy' = 0 /\ icx' = icx + 1
    /\ pc' = "s2loop"
    /\ UNCHANGED <<scheme, bins, args, calls, reported,
                   defur, deful, deflr, defll, s1vars, s3vars, dvars>>

Scheme2Return ==
    /\ pc = "s2loop"
    /\ (icx >= ncx \/ ncy <= 0)
    /\ pc' = "done"
    /\ UNCHANGED <<scheme, bins, args, defarr, calls, written, reported,
                   s1vars, s2vars, s3vars, dvars>>

-----------------------------------------------------------------------------
(* Scheme 3: evaluate a coarse grid, then fit and resample interpolants *)

cnx == nx \div binsv

cny == ny \div binsv

\* np.mgrid[a:b:complex(0, n)]: n points from a to b, both ends included
Mgrid(a, b, i, n) ==
    IF n = 1 THEN a
    ELSE Add(a, Mul(Float(i), Div(Sub(b, a), Float(n - 1))))

\* np.arange(r[1], r[2], (r[2]-r[1])/n): n points, the end excluded
Arange(r, n) ==
    [k \in 0..(n - 1) |-> Add(r[1], Mul(Float(k), Div(Sub(r[2], r[1]), Float(n))))]

\* func(x, y) = (x+y)*exp(-(x^2+y^2)/200), kept as the pair that determines it
func(x, y) == [sum |-> Add(x, y), r2 |-> Add(Mul(x, x), Mul(y, y))]

TestN == 10

TestX(p) == Mgrid(Float(-45), Float(45), p[1], TestN)

TestY(p) == Mgrid(Float(-18), Float(18), p[2], TestN)

\* interpolate.interp2d(x, y, z, kind): the interpolant over the given data
Interp2d(x, y, z, kind) == [x |-> x, y |-> y, z |-> z, kind |-> kind]

\* one element of f(xs, ys): the value of interpolant f at (x, y)
InterpValue(f, x, y) == [interp |-> f, px |-> x, py |-> y]

\* coarse[:,:,c]
Channel(c) == [p \in DOMAIN coarse |-> coarse[p][c]]

Scheme3Begin ==
    /\ pc = "scheme3"
    /\ bins' = IF bins = None THEN Some(DefaultBins) ELSE bins
    /\ coarse' = [p \in Nodes(nx \div bins'[1], ny \div bins'[1]) |-> <<Zero, Zero>>]
    /\ iximg' = 0 /\ iyimg' = 0
    /\ pc' = "s3coarse"
    /\ UNCHANGED <<scheme, args, defarr, calls, written, reported, s2vars,
                   xc, yc, ximg, yimg, fvals, newfunc, defxint, defyint, dvars>>

\* one pass of the inner loop body over the coarse grid
Scheme3Coarse ==
    /\ pc = "s3coarse"
    /\ iximg < cnx /\ cny > 0
    /\ coarse' = [coarse EXCEPT ![<<iximg, iyimg>>] =
                      ml_defang(Ximg(xr, iximg, cnx), Ximg(yr, iyimg, cny),
                                cells, stars)]
    /\ calls' = Append(calls, <<Ximg(xr, iximg, cnx), Ximg(yr, iyimg, cny)>>)
    /\ IF iyimg + 1 < cny
          THEN iyimg' = iyimg + 1 /\ iximg' = iximg
          ELSE iyimg' = 0 /\ iximg' = iximg + 1
    /\ UNCHANGED <<pc, scheme, bins, args, defarr, written, reported, s2vars,
                   xc, yc, ximg, yimg, fvals, newfunc, defxint, defyint, dvars>>

\* the coordinate grids and the test surface
Scheme3Grids ==
    /\ pc = "s3coarse"
    /\ (iximg >= cnx \/ cny <= 0)
    /\ xc' = [p \in Nodes(cnx, cny) |-> Mgrid(xr[1], xr[2], p[1], cnx)]
    /\ yc' = [p \in Nodes(cnx, cny) |-> Mgrid(yr[1], yr[2], p[2], cny)]
    /\ ximg' = Arange(xr, nx)
    /\ yimg' = Arange(yr, ny)
    /\ fvals' = [p \in Nodes(TestN, TestN) |-> func(TestX(p), TestY(p))]
    /\ pc' = "s3newfunc"
    /\ UNCHANGED <<scheme, bins, args, defarr, calls, written, reported,
                   s1vars, s2vars, coarse, newfunc, defxint, defyint, dvars>>

Scheme3FitNew ==
    /\ pc = "s3newfunc"
    /\ newfunc' = Interp2d([p \in Nodes(TestN, TestN) |-> TestX(p)],
                           [p \in Nodes(TestN, TestN) |-> TestY(p)],
                           fvals, "linear")
    /\ pc' = "s3defxint"
    /\ UNCHANGED <<scheme, bins, args, defarr, calls, written, reported,
                   s1vars, s2vars, coarse, xc, yc, ximg, yimg, fvals,
                   defxint, defyint, dvars>>

\* the data the channel-0 interpolant is fitted to
DefxData == fvals

Scheme3FitX ==
    /\ pc = "s3defxint"
    /\ defxint' = Interp2d(xc, yc, DefxData, "cubic")
    /\ pc' = "s3defyint"
    /\ UNCHANGED <<scheme, bins, args, defarr, calls, written, reported,
                   s1vars, s2vars, coarse, xc, yc, ximg, yimg, fvals,
                   newfunc, defyint, dvars>>

Scheme3FitY ==
    /\ pc = "s3defyint"
    /\ defyint' = Interp2d(xc, yc, Channel(2), "cubic")
    /\ pc' = "s3writex"
    /\ UNCHANGED <<scheme, bins, args, defarr, calls, written, reported,
                   s1vars, s2vars, coarse, xc, yc, ximg, yimg, fvals,
                   newfunc, defxint, dvars>>

\* defarr[:,:,c] = f(ximg, yimg); f(xs, ys) has one row per element of ys,
\* so the assignment needs a square field
WriteChannel(c, name) ==
    /\ nx = ny
    /\ defarr' = [p \in DOMAIN defarr |->
                    [defarr[p] EXCEPT ![c] =
                        InterpValue(name, ximg[p[2]], yimg[p[1]])]]
    /\ written' = written \cup DOMAIN defarr

Scheme3WriteX ==
    /\ pc = "s3writex"
    /\ WriteChannel(1, "defxint")
    /\ pc' = "s3writey"
    /\ UNCHANGED <<scheme, bins, args, calls, reported,
                   s1vars, s2vars, s3vars, dvars>>

Scheme3WriteY ==
    /\ pc = "s3writey"
    /\ WriteChannel(2, "defyint")
    /\ pc' = "done"
    /\ UNCHANGED <<scheme, bins, args, calls, reported,
                   s1vars, s2vars, s3vars, dvars>>

\* scipy or numpy rejects the arguments of a fit or of an assignment (data of
\* the wrong size, too few points for a cubic fit, a shape that does not
\* broadcast); which arguments it accepts is left open
LibraryRaise ==
    /\ pc \in {"s3defxint", "s3defyint", "s3writex", "s3writey"}
    /\ pc' = "raised"
    /\ UNCHANGED <<scheme, bins, args, defarr, calls, written, reported,
                   s1vars, s2vars, s3vars, dvars>>

Next ==
    \/ Enter
    \/ Unsupported
    \/ Scheme1Step
    \/ Scheme1Return
    \/ Scheme2Begin
    \/ Scheme2Corners
    \/ Scheme2Fill
    \/ Scheme2Return
    \/ Scheme3Begin
    \/ Scheme3Coarse
    \/ Scheme3Grids
    \/ Scheme3FitNew
    \/ Scheme3FitX
    \/ Scheme3FitY
    \/ Scheme3WriteX
    \/ Scheme3WriteY
    \/ LibraryRaise

Spec == Init /\ [][Next]_vars

-----------------------------------------------------------------------------
(* The parallel dispatcher: nproc workers, each running the scheme 1 loop *)
(* on one y-strip, and the reassembly of their results in launch order    *)

ZeroField(w, h) == [p \in Nodes(w, h) |-> <<Zero, Zero>>]

\* the y-range of strip k
StripRange(k) ==
    LET stripHeight == Div(Sub(yr[2], yr[1]), Float(nproc))
    IN  << Add(yr[1], Mul(Float(k), stripHeight)),
           Add(yr[1], Mul(Float(k + 1), stripHeight)) >>

\* rows per strip
nysub == ny \div nproc

\* the field one scheme 1 call leaves for a w-by-h grid over rx x ry
DirectField(rx, ry, w, h) ==
    [p \in Nodes(w, h) |-> DirectNode(rx, ry, w, h, p[1], p[2], cells, stars)]

InitD ==
    /\ pc = "dispatch"
    /\ scheme = Some(1)
    /\ bins = None
    /\ xr \in Ranges
    /\ yr \in Ranges
    /\ nx \in 1..MaxN
    /\ ny \in 1..MaxN
    /\ nproc \in 1..MaxN
    /\ \E l \in Lenses : cells = l.cells /\ stars = l.stars
    /\ defarr = <<>>
    /\ defarr0 = <<>>
    /\ calls = <<>>
    /\ written = {}
    /\ reported = ""
    /\ iximg = 0 /\ iyimg = 0
    /\ icx = 0 /\ icy = 0
    /\ defur = <<Zero, Zero>> /\ deful = <<Zero, Zero>>
    /\ deflr = <<Zero, Zero>> /\ defll = <<Zero, Zero>>
    /\ coarse = <<>>
    /\ xc = <<>> /\ yc = <<>>
    /\ ximg = <<>> /\ yimg = <<>>
    /\ fvals = <<>>
    /\ newfunc = NoInterp /\ defxint = NoInterp /\ defyint = NoInterp
    /\ strip = <<>> /\ ready = {} /\ recvd = {} /\ full = <<>>

callvars == <<scheme, bins, args, defarr, calls, written, s1vars, s2vars, s3vars>>

\* ny is not a multiple of nproc: report, launch nothing
InvalidPartition ==
    /\ pc = "dispatch"
    /\ ny % nproc # 0
    /\ reported' = "InvalidPartition"
    /\ pc' = "done"
    /\ UNCHANGED <<callvars, dvars>>

Spawn ==
    /\ pc = "dispatch"
    /\ ny % nproc = 0
    /\ strip' = [k \in 0..(nproc - 1) |-> ZeroField(nx, nysub)]
    /\ full' = ZeroField(nx, ny)
    /\ pc' = "collect"
    /\ UNCHANGED <<callvars, reported, nproc, ready, recvd>>

\* worker k evaluates its strip and sends the result
Worker(k) ==
    /\ pc = "collect"
    /\ k \notin ready
    /\ strip' = [strip EXCEPT ![k] = DirectField(xr, StripRange(k), nx, nysub)]
    /\ ready' = ready \cup {k}
    /\ UNCHANGED <<pc, callvars, reported, nproc, recvd, full>>

\* the dispatcher receives the next worker's strip and writes it at its offset
Receive ==
    /\ pc = "collect"
    /\ LET k == Cardinality(recvd)
       IN  /\ k < nproc
           /\ k \in ready
           /\ full' = [p \in DOMAIN full |->
                         IF k * nysub <= p[2] /\ p[2] < (k + 1) * nysub
                            THEN strip[k][<<p[1], p[2] - k * nysub>>]
                            ELSE full[p]]
           /\ recvd' = recvd \cup {k}
    /\ UNCHANGED <<pc, callvars, reported, nproc, strip, ready>>

Finish ==
    /\ pc = "collect"
    /\ Cardinality(recvd) = nproc
    /\ pc' = "done"
    /\ UNCHANGED <<callvars, reported, dvars>>

NextD ==
    \/ InvalidPartition
    \/ Spawn
    \/ \E k \in 0..(nproc - 1) : Worker(k)
    \/ Receive
    \/ Finish

SpecD == InitD /\ [][NextD]_vars

-----------------------------------------------------------------------------
(* Properties *)

\* sample i of n over the half-open range [r[1], r[2]): r[1] + i*(r[2]-r[1])/n
HalfOpen(r, i, n) == Add(r[1], Mul(Float(i), Div(Sub(r[2], r[1]), Float(n))))

\* the coordinate of grid node (i, j) and a fresh evaluation there
NodeCoord(i, j) == <<HalfOpen(xr, i, nx), HalfOpen(yr, j, ny)>>

Fresh(i, j) == ml_defang(HalfOpen(xr, i, nx), HalfOpen(yr, j, ny), cells, stars)

Count(seq, v) == Cardinality({k \in 1..Len(seq) : seq[k] = v})

\* C1: after scheme 1 every node (i, j) holds the evaluator's value at the
\* half-open sample coordinate of (i, j), the evaluator was called exactly once
\* per node, and no call was made at the right boundary xr[1] or the top
\* boundary yr[1].
C1_DirectFill ==
    (pc = "done" /\ scheme = Some(1)) =>
        /\ \A i \in 0..(nx - 1), j \in 0..(ny - 1) :
              /\ defarr[<<i, j>>] = Fresh(i, j)
              /\ Count(calls, NodeCoord(i, j)) = 1
        /\ Len(calls) = nx * ny
        /\ \A k \in 1..Len(calls) : calls[k][1] # xr[2] /\ calls[k][2] # yr[2]

C1_Witness ==
    /\ pc = "done" /\ scheme = Some(1)
    /\ nx >= 3 /\ ny >= 2 /\ nx # ny
    /\ defarr # defarr0

\* C4: a scheme outside {1, 2, 3} (and not None) is reported as unsupported;
\* the call makes no evaluator call and never changes the caller's field.
C4_Unsupported ==
    (scheme \notin {None, Some(1), Some(2), Some(3)}) =>
        /\ defarr = defarr0
        /\ written = {}
        /\ calls = <<>>
        /\ (pc = "done" => reported = "UnsupportedScheme")

C4_Witness ==
    /\ pc = "done" /\ scheme = Some(4)
    /\ reported = "UnsupportedScheme"
    /\ defarr[<<0, 0>>] # <<Zero, Zero>>

\* C3: in scheme 2 every corner buffer a block interpolates from holds the
\* value of a fresh evaluation at that corner's coordinate, and each corner
\* read back from the field (upper-left when icx > 0, lower-right when
\* icy > 0, lower-left when icx > 0 or icy > 0) is a node this call has
\* already written, whatever the field held on entry.
C3_CornerReuseExact ==
    pc = "s2fill" =>
        LET x0i == icx * binsv
            x1i == (icx + 1) * binsv
            y0i == icy * binsv
            y1i == (icy + 1) * binsv
        IN  /\ defur = Fresh(x1i, y1i)
            /\ deful = Fresh(x0i, y1i)
            /\ deflr = Fresh(x1i, y0i)
            /\ defll = Fresh(x0i, y0i)
            /\ (icx > 0 => <<x0i, y1i>> \in written)
            /\ (icy > 0 => <<x1i, y0i>> \in written)
            /\ (icx > 0 \/ icy > 0 => <<x0i, y0i>> \in written)

C3_Witness ==
    /\ pc = "s2fill" /\ icx > 0 /\ icy > 0
    /\ defarr0[<<0, 0>>] # <<Zero, Zero>>
    /\ deful = defarr[<<icx * binsv, (icy + 1) * binsv>>]
    /\ deful # defarr0[<<icx * binsv, (icy + 1) * binsv>>]

\* bilinear interpolation with integer weights u, v out of b
Blend(ll, lr, ul, ur, u, v, b) ==
    Div(Add(Add(Mul(Float((b - u) * (b - v)), ll), Mul(Float(u * (b - v)), lr)),
            Add(Mul(Float((b - u) * v), ul), Mul(Float(u * v), ur))),
        Float(b * b))

BlendAt(a, b, i, j, c) ==
    Blend(Fresh(a * binsv, b * binsv)[c], Fresh((a + 1) * binsv, b * binsv)[c],
          Fresh(a * binsv, (b + 1) * binsv)[c],
          Fresh((a + 1) * binsv, (b + 1) * binsv)[c],
          i - a * binsv, j - b * binsv, binsv)

\* C8: after scheme 2 every covered node holds, for every block that contains
\* it, the bilinear interpolation of the evaluator's values at that block's
\* four corners; so blocks sharing a node agree on it and every block corner
\* holds the evaluator's value at its own coordinate.
C8_BilinearFill ==
    (pc = "done" /\ scheme = Some(2)) =>
        \A a \in 0..(ncx - 1), b \in 0..(ncy - 1) :
            /\ \A i \in (a * binsv)..((a + 1) * binsv),
                  j \in (b * binsv)..((b + 1) * binsv) :
                  defarr[<<i, j>>] = <<BlendAt(a, b, i, j, 1), BlendAt(a, b, i, j, 2)>>
            /\ \A i \in {a * binsv, (a + 1) * binsv},
                  j \in {b * binsv, (b + 1) * binsv} :
                  defarr[<<i, j>>] = Fresh(i, j)

C8_Witness ==
    /\ pc = "done" /\ scheme = Some(2)
    /\ binsv >= 2 /\ ncx >= 2 /\ ncy >= 1
    /\ defarr[<<1, 1>>] # defarr0[<<1, 1>>]
    /\ defarr[<<1, 1>>] # Fresh(1, 1)

Scheme2Running == scheme = Some(2) /\ pc \in {"s2loop", "s2fill", "done"}

\* C9: scheme 2 writes only nodes (i, j) with i <= ncx*bins and j <= ncy*bins,
\* all inside the field; every other node keeps its value from before the
\* call; with nx-1 < bins or ny-1 < bins nothing is written or evaluated.
C9_Coverage ==
    Scheme2Running =>
        LET cx == ((nx - 1) \div binsv) * binsv
            cy == ((ny - 1) \div binsv) * binsv
        IN  /\ \A p \in written :
                  /\ 0 <= p[1] /\ p[1] <= cx /\ p[1] < nx
                  /\ 0 <= p[2] /\ p[2] <= cy /\ p[2] < ny
            /\ \A p \in Nodes(nx, ny) :
                  (p[1] > cx \/ p[2] > cy) => defarr[p] = defarr0[p]
            /\ (nx - 1 < binsv \/ ny - 1 < binsv) =>
                  (written = {} /\ calls = <<>> /\ defarr = defarr0)

C9_Witness ==
    /\ pc = "done" /\ scheme = Some(2)
    /\ written # {}
    /\ (nx - 1) % binsv # 0 /\ (ny - 1) % binsv # 0
    /\ defarr[<<nx - 1, 0>>] = defarr0[<<nx - 1, 0>>]
    /\ defarr0[<<0, 0>>] # <<Zero, Zero>>

\* the evaluator calls the claim allots to block (a, b)
BlockCalls(a, b) ==
    << NodeCoord((a + 1) * binsv, (b + 1) * binsv) >>
    \o (IF a = 0 THEN << NodeCoord(a * binsv, (b + 1) * binsv) >> ELSE <<>>)
    \o (IF b = 0 THEN << NodeCoord((a + 1) * binsv, b * binsv) >> ELSE <<>>)
    \o (IF a = 0 /\ b = 0 THEN << NodeCoord(a * binsv, b * binsv) >> ELSE <<>>)

\* the number of calls made by the blocks before (a, b) in loop order
CallsBefore(a, b) ==
    (a * ncy + b) + (IF a = 0 THEN b ELSE ncy)
    + (a + (IF b > 0 THEN 1 ELSE 0)) + (IF a > 0 \/ b > 0 THEN 1 ELSE 0)

\* C10: in scheme 2 a block evaluates its upper-right corner always, its
\* upper-left only when icx = 0, its lower-right only when icy = 0 and its
\* lower-left only when icx = icy = 0; no coordinate is evaluated twice, and
\* with ncx >= 1 and ncy >= 1 the call makes (ncx+1)*(ncy+1) evaluations.
C10_CornerCalls ==
    Scheme2Running =>
        /\ \A k, l \in 1..Len(calls) : k # l => calls[k] # calls[l]
        /\ pc = "s2fill" =>
              /\ Len(calls) = CallsBefore(icx, icy) + Len(BlockCalls(icx, icy))
              /\ SubSeq(calls, CallsBefore(icx, icy) + 1, Len(calls))
                    = BlockCalls(icx, icy)
        /\ (pc = "done" /\ ncx >= 1 /\ ncy >= 1) =>
              Len(calls) = (ncx + 1) * (ncy + 1)

C10_Witness ==
    /\ pc = "done" /\ scheme = Some(2)
    /\ ncx >= 2 /\ ncy >= 2
    /\ Len(calls) = (ncx + 1) * (ncy + 1)

\* C2: for nproc dividing ny, the strips the workers compute with the scheme 1
\* loop, written at row offsets k*ny/nproc, give at every node the value one
\* scheme 1 call over the full range gives: row j of strip k samples the
\* coordinate the full grid samples for row k*ny/nproc + j.
C2_StripsEqualFull ==
    /\ pc = "collect" =>
          \A k \in ready : \A j \in 0..(nysub - 1) :
              /\ Ximg(StripRange(k), j, nysub) = Ximg(yr, k * nysub + j, ny)
              /\ \A i \in 0..(nx - 1) :
                    strip[k][<<i, j>>]
                       = DirectNode(xr, yr, nx, ny, i, k * nysub + j, cells, stars)
    /\ (pc = "done" /\ reported = "") => full = DirectField(xr, yr, nx, ny)

C2_Witness ==
    /\ pc = "done" /\ reported = ""
    /\ nproc >= 2 /\ nysub >= 2 /\ nx >= 2
    /\ full = DirectField(xr, yr, nx, ny)

\* C5: in scheme 3 each output channel comes from an interpolant fitted to the
\* same channel of the coarse field: channel 0 from coarse[:,:,0], channel 1
\* from coarse[:,:,1].
C5_ChannelsFromCoarse ==
    /\ defxint.kind # "none" => defxint.z = Channel(1)
    /\ defyint.kind # "none" => defyint.z = Channel(2)
    /\ (pc = "done" /\ scheme = Some(3)) =>
          \A p \in DOMAIN defarr :
              defarr[p][1].interp = "defxint" /\ defarr[p][2].interp = "defyint"

\* C6: in scheme 3 the coordinate attached to coarse sample (i, j) when the
\* interpolant is fitted (xc, yc, and the interpolant's own x, y) is the
\* coordinate at which that sample was evaluated.
C6_FitAtSampleCoordinates ==
    (scheme = Some(3)
       /\ pc \in {"s3newfunc", "s3defxint", "s3defyint", "s3writex", "s3writey",
                  "done", "raised"}) =>
        /\ \A p \in Nodes(cnx, cny) :
              <<xc[p], yc[p]>> = calls[p[1] * cny + p[2] + 1]
        /\ defyint.kind # "none" => (defyint.x = xc /\ defyint.y = yc)

\* C7: in scheme 3 with fewer than 4 coarse points along x or y the call
\* fails with InsufficientSamples before any interpolant is fitted and before
\* any entry of the field is written.
C7_InsufficientSamples ==
    (scheme = Some(3) /\ pc \notin {"entry", "scheme3"} /\ (cnx < 4 \/ cny < 4)) =>
        /\ newfunc.kind = "none" /\ defxint.kind = "none" /\ defyint.kind = "none"
        /\ written = {}
        /\ (pc \in {"done", "raised"} => reported = "InsufficientSamples")

====
